---------------------------- MODULE Spec2Model ----------------------------
(***************************************************************************)
(* Model of keystore2/src/globals.rs: the thread local database            *)
(* connections guarded by the DB_INIT latch, the KeyMint device cache      *)
(* (KEY_MINT_DEVICES) and the timestamp service cell (TIME_STAMP_DEVICE).  *)
(*                                                                         *)
(* Every thread repeatedly calls one of create_thread_local_db (through    *)
(* the first access of its thread local DB), get_keymint_device,           *)
(* get_keymint_dev_by_uuid and get_timestamp_service.  Steps that take a   *)
(* lock, call into the database, the service manager or a device are       *)
(* separate actions, so that threads interleave between them.  A panic     *)
(* (a failed expect or unwrap) unwinds the thread: the thread stops, a     *)
(* MutexGuard dropped while unwinding poisons its Mutex and a panic inside *)
(* Once::call_once poisons the Once.                                       *)
(***************************************************************************)
EXTENDS Integers, Sequences, FiniteSets, TLC

\* ------------------------------------------------------------------ bounds
\* number of threads, and number of calls all threads together begin
NumThreads == 2
MaxCalls == 2

Threads == 1..NumThreads

\* ------------------------------------------------------------ value domains
\* SecurityLevel (AIDL enum): SOFTWARE = 0, TRUSTED_ENVIRONMENT = 1, STRONGBOX = 2
SOFTWARE == 0
TRUSTED_ENVIRONMENT == 1
STRONGBOX == 2
SecurityLevels == {SOFTWARE, TRUSTED_ENVIRONMENT, STRONGBOX}

KEYMINT_SERVICE_NAME == "android.hardware.security.keymint.IKeyMintDevice"
TIME_STAMP_SERVICE_NAME == "android.hardware.security.secureclock.ISecureClock"
COMPAT_SERVICE_NAME == "android.security.compat"

None == [some |-> FALSE]
Some(v) == [some |-> TRUE, val |-> v]

Ok(v) == [ok |-> TRUE, val |-> v]
Err(e) == [ok |-> FALSE, err |-> e]

\* ------------------------------------------------------------------ errors
\* crate::error::Error with the anyhow context attached so far (innermost first).
BinderTransaction(code) == [kind |-> "BinderTransaction", code |-> code, ctx |-> <<>>]
Km(code) == [kind |-> "Km", code |-> code, ctx |-> <<>>]
Rc(code) == [kind |-> "Rc", code |-> code, ctx |-> <<>>]

\* anyhow's context(): the root cause is kept, the message is added.
Context(e, msg) == [e EXCEPT !.ctx = Append(@, msg)]

\* e.root_cause().downcast_ref::<Error>()
RootCause(e) == [kind |-> e.kind, code |-> e.code]

\* Error::sys()
ErrorSys == Rc("SYSTEM_ERROR")

\* binder::StatusCode values a failed get_interface or transaction reports
StatusCodes == {"NAME_NOT_FOUND", "DEAD_OBJECT"}

\* map_binder_status_code: Result<T, StatusCode> -> Result<T, Error>
map_binder_status_code(r) == IF r.ok THEN r ELSE Err(BinderTransaction(r.err))

\* binder::Status values of a failed AIDL call of the compat service
TransactionFailed(sc) == [exception |-> "TRANSACTION_FAILED", code |-> sc]
ServiceSpecific(ec) == [exception |-> "SERVICE_SPECIFIC", code |-> ec]

\* map_binder_status: BinderResult<T> -> Result<T, Error>
map_binder_status(r) ==
    IF r.ok THEN r
    ELSE IF r.err.exception = "TRANSACTION_FAILED"
         THEN Err(BinderTransaction(r.err.code))
         ELSE Err(Km(r.err.code))

\* map_km_error: BinderResult<T> -> Result<T, Error>
map_km_error(r) ==
    IF r.ok THEN r
    ELSE IF r.err.exception = "SERVICE_SPECIFIC"
         THEN Err(Km(r.err.code))
         ELSE Err(BinderTransaction(r.err.code))

\* --------------------------------------------------------------- DevicesMap
\* Uuid: From<SecurityLevel>, the level's number as a 128 bit big endian value.
UuidFrom(sec_level) == [uuid |-> sec_level]
Uuids == {UuidFrom(l) : l \in SecurityLevels}

\* KeyMintHardwareInfo values a device may report
HwInfos == {"hw_info_a", "hw_info_b"}

\* #[derive(Default)] DevicesMap: two empty HashMaps
DevicesMapDefault ==
    [devices_by_uuid |-> [u \in Uuids |-> None],
     uuid_by_sec_level |-> [l \in SecurityLevels |-> None]]

\* DevicesMap::dev_by_uuid
dev_by_uuid(m, uuid) ==
    IF m.devices_by_uuid[uuid].some
    THEN Some([dev |-> m.devices_by_uuid[uuid].val.dev,
               hw_info |-> m.devices_by_uuid[uuid].val.hw_info,
               uuid |-> uuid])
    ELSE None

\* DevicesMap::dev_by_sec_level
dev_by_sec_level(m, sec_level) ==
    IF m.uuid_by_sec_level[sec_level].some
    THEN dev_by_uuid(m, m.uuid_by_sec_level[sec_level].val)
    ELSE None

\* insert_devices_by_uuid that files the record under the default Uuid.
insert_devices_by_default_uuid(m, sec_level, dev, hw_info) ==
    [m EXCEPT !.devices_by_uuid[UuidFrom(SOFTWARE)] =
                  Some([dev |-> dev, hw_info |-> hw_info])]

\* DevicesMap::insert, its first statement: devices_by_uuid.insert(uuid, (dev, hw_info))
insert_devices_by_uuid(m, sec_level, dev, hw_info) ==
    [m EXCEPT !.devices_by_uuid[UuidFrom(sec_level)] =
                  Some([dev |-> dev, hw_info |-> hw_info])]

\* insert_uuid_by_sec_level replacing the whole map by the one new entry.
insert_only_uuid_by_sec_level(m, sec_level) ==
    [m EXCEPT !.uuid_by_sec_level =
        [l \in DOMAIN m.uuid_by_sec_level |->
            IF l = sec_level THEN Some(UuidFrom(sec_level)) ELSE None]]

\* DevicesMap::insert, its second statement: uuid_by_sec_level.insert(sec_level, uuid)
insert_uuid_by_sec_level(m, sec_level) ==
    [m EXCEPT !.uuid_by_sec_level[sec_level] = Some(UuidFrom(sec_level))]

\* KeymintServiceName without the catch-all arm: every level but STRONGBOX is
\* served by the default instance.
KeymintServiceNameNoCatchAll(security_level) ==
    CASE security_level = STRONGBOX -> Some(<<KEYMINT_SERVICE_NAME, "strongbox">>)
      [] OTHER -> Some(<<KEYMINT_SERVICE_NAME, "default">>)

\* KeymintServiceName with the default instance in the STRONGBOX arm too.
KeymintServiceNameAlwaysDefault(security_level) ==
    CASE security_level = TRUSTED_ENVIRONMENT -> Some(<<KEYMINT_SERVICE_NAME, "default">>)
      [] security_level = STRONGBOX           -> Some(<<KEYMINT_SERVICE_NAME, "default">>)
      [] OTHER                                -> None

\* connect_keymint, the match on the security level: the service name or None
KeymintServiceName(security_level) ==
    CASE security_level = TRUSTED_ENVIRONMENT -> Some(<<KEYMINT_SERVICE_NAME, "default">>)
      [] security_level = STRONGBOX -> Some(<<KEYMINT_SERVICE_NAME, "strongbox">>)
      [] OTHER -> None

VARIABLES
    pc,                 \* position of every thread
    frame,              \* the call a thread is in: its argument, steps and locals
    calls,              \* number of calls begun so far
    ret,                \* the call that returned (or panicked) last, and its result
    DB,                 \* thread local DB: "uninit" or "open"
    DB_PATH,            \* Mutex<PathBuf>: [holder, poisoned], holder None or Some(thread)
    DB_INIT,            \* Once: "incomplete", "running", "complete", "poisoned"
    repairLog,          \* database repair steps executed so far with their outcome, in order
    KEY_MINT_DEVICES,   \* Mutex<DevicesMap>: [holder, poisoned, map]
    TIME_STAMP_DEVICE,  \* Mutex<Option<Asp>>: [holder, poisoned, dev]
    compatRegistered,   \* keystore2_km_compat::add_keymint_device_service was called
    nextHandle,         \* number of binder objects handed out so far
    firstRes,           \* per level: the first successful result of get_keymint_device
    firstTs             \* the first successful result of get_timestamp_service

vars == <<pc, frame, calls, ret, DB, DB_PATH, DB_INIT, repairLog, KEY_MINT_DEVICES,
          TIME_STAMP_DEVICE, compatRegistered, nextHandle, firstRes, firstTs>>

dbVars == <<DB, DB_PATH, DB_INIT, repairLog>>
kmVars == <<KEY_MINT_DEVICES, firstRes>>
tsVars == <<TIME_STAMP_DEVICE, firstTs>>
envVars == <<compatRegistered, nextHandle>>

NoArg == "-"
NoRet == [op |-> "none"]
\* op: the function called; arg: its argument; trace: the external steps the
\* call has made, in order; keymint, hw_info: locals of the connector
NoFrame == [op |-> "none", arg |-> NoArg, trace |-> <<>>,
            keymint |-> None, hw_info |-> None]

Init ==
    /\ pc = [t \in Threads |-> "idle"]
    /\ frame = [t \in Threads |-> NoFrame]
    /\ calls = 0
    /\ ret = NoRet
    /\ DB = [t \in Threads |-> "uninit"]
    /\ DB_PATH = [holder |-> None, poisoned |-> FALSE]
    /\ DB_INIT = "incomplete"
    /\ repairLog = <<>>
    /\ KEY_MINT_DEVICES = [holder |-> None, poisoned |-> FALSE, map |-> DevicesMapDefault]
    /\ TIME_STAMP_DEVICE = [holder |-> None, poisoned |-> FALSE, dev |-> None]
    /\ compatRegistered = FALSE
    /\ nextHandle = 0
    /\ firstRes = [l \in SecurityLevels |-> None]
    /\ firstTs = None

\* A thread moves to a new position.
Goto(t, p) == pc' = [pc EXCEPT ![t] = p]

\* A thread moves on within its call, which is otherwise unchanged.
Move(t, p) == Goto(t, p) /\ UNCHANGED <<frame, calls, ret>>

\* A thread moves on after an external step s of its call.
Step(t, s, p) ==
    /\ Goto(t, p)
    /\ frame' = [frame EXCEPT ![t].trace = Append(@, s)]
    /\ UNCHANGED <<calls, ret>>

\* A call begins.
Begin(t, op, a, p) ==
    /\ pc[t] = "idle"
    /\ calls < MaxCalls
    /\ calls' = calls + 1
    /\ frame' = [frame EXCEPT ![t] = [NoFrame EXCEPT !.op = op, !.arg = a]]
    /\ Goto(t, p)
    /\ UNCHANGED ret

\* The call of thread t ends with result r, after the steps in tr.
End(t, r, tr, p) ==
    /\ ret' = [thread |-> t, op |-> frame[t].op, arg |-> frame[t].arg,
               res |-> r, trace |-> tr]
    /\ frame' = [frame EXCEPT ![t] = NoFrame]
    /\ Goto(t, p)
    /\ UNCHANGED calls

\* The call returns r.
Return(t, r) == End(t, r, frame[t].trace, "idle")

\* The call returns r right after the external step s.
StepReturn(t, s, r) == End(t, r, Append(frame[t].trace, s), "idle")

\* The call panics: the thread unwinds and ends.
Panicked(msg) == [ok |-> FALSE, panic |-> msg]
Panic(t, msg) == End(t, Panicked(msg), frame[t].trace, "panicked")
StepPanic(t, s, msg) == End(t, Panicked(msg), Append(frame[t].trace, s), "panicked")

\* ------------------------------------------------- create_thread_local_db
\* First access of the thread local DB on thread t runs create_thread_local_db.
DBFirstAccess(t) ==
    /\ DB[t] = "uninit"
    /\ Begin(t, "create_thread_local_db", NoArg, "db_lock")
    /\ UNCHANGED <<dbVars, kmVars, tsVars, envVars>>

\* DB_PATH.lock().expect("Could not get the database directory.")
DbPathLock(t) ==
    /\ pc[t] = "db_lock"
    /\ DB_PATH.holder = None
    /\ IF DB_PATH.poisoned
       THEN /\ Panic(t, "Could not get the database directory.")
            /\ UNCHANGED DB_PATH
       ELSE /\ Move(t, "db_open")
            /\ DB_PATH' = [DB_PATH EXCEPT !.holder = Some(t)]
    /\ UNCHANGED <<DB, DB_INIT, repairLog, kmVars, tsVars, envVars>>

\* KeystoreDB::new(..).expect("Failed to open database."); the guard of DB_PATH
\* is a temporary of this statement: it is dropped when the statement ends, or
\* by the unwinding of the failed expect, which poisons the Mutex.
KeystoreDBNew(t) ==
    /\ pc[t] = "db_open"
    /\ DB_PATH.holder = Some(t)
    /\ \E opened \in BOOLEAN :
        IF opened
        THEN /\ Step(t, <<"KeystoreDB::new", "OK">>, "call_once")
             /\ DB_PATH' = [DB_PATH EXCEPT !.holder = None]
        ELSE /\ StepPanic(t, <<"KeystoreDB::new", "FAILED">>, "Failed to open database.")
             /\ DB_PATH' = [holder |-> None, poisoned |-> TRUE]
    /\ UNCHANGED <<DB, DB_INIT, repairLog, kmVars, tsVars, envVars>>

\* CallOnce without the latch: a caller that finds the closure running runs
\* it as well.
CallOnceNoLatch(t) ==
    /\ pc[t] = "call_once"
    /\ CASE DB_INIT \in {"incomplete", "running"} ->
                /\ DB_INIT' = "running"
                /\ Move(t, "insert_last_off_body")
         [] DB_INIT = "complete" -> /\ UNCHANGED DB_INIT
                                    /\ Move(t, "db_return")
         [] DB_INIT = "poisoned" -> /\ UNCHANGED DB_INIT
                                    /\ Panic(t, "Once instance has previously been poisoned")
    /\ UNCHANGED <<DB, DB_PATH, repairLog, kmVars, tsVars, envVars>>

\* CallOnce without the wait: a caller that finds the closure running returns.
CallOnceNoWait(t) ==
    /\ pc[t] = "call_once"
    /\ CASE DB_INIT = "incomplete" -> /\ DB_INIT' = "running"
                                      /\ Move(t, "insert_last_off_body")
         [] DB_INIT \in {"running", "complete"} -> /\ UNCHANGED DB_INIT
                                                   /\ Move(t, "db_return")
         [] DB_INIT = "poisoned"   -> /\ UNCHANGED DB_INIT
                                      /\ Panic(t, "Once instance has previously been poisoned")
    /\ UNCHANGED <<DB, DB_PATH, repairLog, kmVars, tsVars, envVars>>

\* DB_INIT.call_once(..): the first caller runs the closure, a caller that
\* finds the closure running waits, a caller that finds it done returns, and
\* a caller that finds the Once poisoned panics.
CallOnce(t) ==
    /\ pc[t] = "call_once"
    /\ DB_INIT # "running"
    /\ CASE DB_INIT = "incomplete" -> /\ DB_INIT' = "running"
                                      /\ Move(t, "insert_last_off_body")
         [] DB_INIT = "complete"   -> /\ UNCHANGED DB_INIT
                                      /\ Move(t, "db_return")
         [] DB_INIT = "poisoned"   -> /\ UNCHANGED DB_INIT
                                      /\ Panic(t, "Once instance has previously been poisoned")
    /\ UNCHANGED <<DB, DB_PATH, repairLog, kmVars, tsVars, envVars>>

\* RepairStep under a latch that a failed closure leaves unarmed, so that the
\* next caller runs the closure again.
RepairStepRetryable(t, step, msg, next) ==
    /\ pc[t] = step
    /\ \E done \in BOOLEAN :
        IF done
        THEN /\ Step(t, <<step, "OK">>, next)
             /\ repairLog' = Append(repairLog, <<step, "OK">>)
             /\ UNCHANGED DB_INIT
        ELSE /\ StepPanic(t, <<step, "FAILED">>, msg)
             /\ repairLog' = Append(repairLog, <<step, "FAILED">>)
             /\ DB_INIT' = "incomplete"
    /\ UNCHANGED <<DB, DB_PATH, kmVars, tsVars, envVars>>

\* RepairStep whose failure leaves the Once as it was, running: the waiters
\* are never released.
RepairStepLeavesRunning(t, step, msg, next) ==
    /\ pc[t] = step
    /\ \E done \in BOOLEAN :
        IF done
        THEN /\ Step(t, <<step, "OK">>, next)
             /\ repairLog' = Append(repairLog, <<step, "OK">>)
        ELSE /\ StepPanic(t, <<step, "FAILED">>, msg)
             /\ repairLog' = Append(repairLog, <<step, "FAILED">>)
    /\ UNCHANGED <<DB, DB_PATH, DB_INIT, kmVars, tsVars, envVars>>

\* One fallible step of the closure: a failed expect unwinds out of call_once
\* and poisons DB_INIT.
RepairStep(t, step, msg, next) ==
    /\ pc[t] = step
    /\ \E done \in BOOLEAN :
        IF done
        THEN /\ Step(t, <<step, "OK">>, next)
             /\ repairLog' = Append(repairLog, <<step, "OK">>)
             /\ UNCHANGED DB_INIT
        ELSE /\ StepPanic(t, <<step, "FAILED">>, msg)
             /\ repairLog' = Append(repairLog, <<step, "FAILED">>)
             /\ DB_INIT' = "poisoned"
    /\ UNCHANGED <<DB, DB_PATH, kmVars, tsVars, envVars>>

\* InsertLastOffBody handing over to the GC notification instead of the
\* cleanup.
InsertLastOffBodySkipsCleanup(t) ==
    RepairStep(t, "insert_last_off_body",
               "Could not initialize database with last off body.", "notify_gc")

\* db.insert_last_off_body(MonotonicRawTime::now()).expect(..)
InsertLastOffBody(t) ==
    RepairStep(t, "insert_last_off_body",
               "Could not initialize database with last off body.", "cleanup_leftovers")

\* db.cleanup_leftovers().expect(..)
CleanupLeftovers(t) ==
    RepairStep(t, "cleanup_leftovers", "Failed to cleanup database on startup.",
               "notify_gc")

\* Gc::notify_gc()
NotifyGc(t) ==
    /\ pc[t] = "notify_gc"
    /\ repairLog' = Append(repairLog, <<"notify_gc", "OK">>)
    /\ Step(t, <<"notify_gc", "OK">>, "once_done")
    /\ UNCHANGED <<DB, DB_PATH, DB_INIT, kmVars, tsVars, envVars>>

\* The closure returns: the Once is complete and its waiters are released.
OnceDone(t) ==
    /\ pc[t] = "once_done"
    /\ DB_INIT' = "complete"
    /\ Move(t, "db_return")
    /\ UNCHANGED <<DB, DB_PATH, repairLog, kmVars, tsVars, envVars>>

\* create_thread_local_db returns db, which becomes the thread local DB.
DbReturn(t) ==
    /\ pc[t] = "db_return"
    /\ DB' = [DB EXCEPT ![t] = "open"]
    /\ Return(t, Ok("db"))
    /\ UNCHANGED <<DB_PATH, DB_INIT, repairLog, kmVars, tsVars, envVars>>

\* ------------------------------------------------------ get_keymint_device
\* What an external call reported: "OK", or the code of its failure.
Outcome(m) == IF m.ok THEN "OK" ELSE m.err.code

\* A binder object the service manager or the compat service hands out.
NewHandle(via, what) == [id |-> nextHandle + 1, via |-> via, what |-> what]

\* get_keymint_device(&security_level) is called.
GetKeymintDevice(t, security_level) ==
    /\ Begin(t, "get_keymint_device", security_level, "km_lock")
    /\ UNCHANGED <<dbVars, kmVars, tsVars, envVars>>

\* The first successful result for a level is remembered.
NoteFirstRes(t, security_level, v) ==
    firstRes' = IF firstRes[security_level].some THEN firstRes
                ELSE [firstRes EXCEPT ![security_level] =
                          Some(v)]

\* connect_keymint(..).context("In get_keymint_device.")? fails after the step
\* s: the error is returned and the guard is dropped; nothing is inserted.
KmFail(t, s, e) ==
    /\ StepReturn(t, s, Err(Context(e, "In get_keymint_device.")))
    /\ KEY_MINT_DEVICES' = [KEY_MINT_DEVICES EXCEPT !.holder = None]
    /\ UNCHANGED firstRes

\* ConnectKeymint with the guard dropped after the lookup: the negotiation
\* runs without the lock.
ConnectKeymintUnlocked(t) ==
    LET s == <<"connect_keymint", frame[t].arg>> IN
    IF KeymintServiceName(frame[t].arg).some
    THEN /\ Step(t, s, "km_get_interface")
         /\ UNCHANGED <<KEY_MINT_DEVICES, firstRes>>
    ELSE KmFail(t, s, Context(Km("HARDWARE_TYPE_UNAVAILABLE"), "In connect_keymint."))

\* connect_keymint is entered: the service name of the level, or
\* HARDWARE_TYPE_UNAVAILABLE for a level that has none.
ConnectKeymint(t) ==
    LET s == <<"connect_keymint", frame[t].arg>> IN
    IF KeymintServiceName(frame[t].arg).some
    THEN /\ Step(t, s, "km_get_interface")
         /\ KEY_MINT_DEVICES' = [KEY_MINT_DEVICES EXCEPT !.holder = Some(t)]
         /\ UNCHANGED firstRes
    ELSE KmFail(t, s, Context(Km("HARDWARE_TYPE_UNAVAILABLE"), "In connect_keymint."))

\* KmLookup without the cache: every call connects.
KmLookupNoCache(t) ==
    /\ pc[t] = "km_lock"
    /\ KEY_MINT_DEVICES.holder = None
    /\ IF KEY_MINT_DEVICES.poisoned
       THEN /\ Panic(t, "PoisonError")
            /\ UNCHANGED kmVars
       ELSE ConnectKeymint(t)
    /\ UNCHANGED <<dbVars, tsVars, envVars>>

\* KEY_MINT_DEVICES.lock().unwrap(), then
\* if let Some(..) = devices_map.dev_by_sec_level(&security_level): a hit returns
\* the cached triple and drops the guard, a miss enters connect_keymint with the
\* guard held.
KmLookup(t) ==
    /\ pc[t] = "km_lock"
    /\ KEY_MINT_DEVICES.holder = None
    /\ IF KEY_MINT_DEVICES.poisoned
       THEN /\ Panic(t, "PoisonError")
            /\ UNCHANGED kmVars
       ELSE LET hit == dev_by_sec_level(KEY_MINT_DEVICES.map, frame[t].arg) IN
            IF hit.some
            THEN /\ Return(t, Ok(hit.val))
                 /\ NoteFirstRes(t, frame[t].arg, hit.val)
                 /\ UNCHANGED KEY_MINT_DEVICES
            ELSE ConnectKeymint(t)
    /\ UNCHANGED <<dbVars, tsVars, envVars>>

\* The root cause of e is Error::BinderTransaction(StatusCode::NAME_NOT_FOUND).
IsNameNotFound(e) == RootCause(e) = RootCause(BinderTransaction("NAME_NOT_FOUND"))

\* KmGetInterface that falls back to the compat service on every error.
KmGetInterfaceAnyError(t) ==
    /\ pc[t] = "km_get_interface"
    /\ LET name == KeymintServiceName(frame[t].arg).val IN
       \E r \in {Ok(NewHandle("native", name))} \cup {Err(sc) : sc \in StatusCodes} :
           LET m == map_binder_status_code(r)
               s == <<"get_interface", name, Outcome(m)>> IN
           IF m.ok
           THEN /\ Goto(t, "km_hw_info")
                /\ frame' = [frame EXCEPT ![t].trace = Append(@, s),
                                          ![t].keymint = Some(m.val)]
                /\ nextHandle' = nextHandle + 1
                /\ UNCHANGED <<calls, ret, kmVars>>
           ELSE /\ Step(t, s, "km_add_compat")
                /\ UNCHANGED <<kmVars, nextHandle>>
    /\ UNCHANGED <<dbVars, tsVars, compatRegistered>>

\* binder::get_interface(&service_name): the genuine KeyMint service. A
\* NAME_NOT_FOUND goes to the compat service, any other error is returned.
KmGetInterface(t) ==
    /\ pc[t] = "km_get_interface"
    /\ LET name == KeymintServiceName(frame[t].arg).val IN
       \E r \in {Ok(NewHandle("native", name))} \cup {Err(sc) : sc \in StatusCodes} :
           LET m == map_binder_status_code(r)
               s == <<"get_interface", name, Outcome(m)>> IN
           IF m.ok
           THEN /\ Goto(t, "km_hw_info")
                /\ frame' = [frame EXCEPT ![t].trace = Append(@, s),
                                          ![t].keymint = Some(m.val)]
                /\ nextHandle' = nextHandle + 1
                /\ UNCHANGED <<calls, ret, kmVars>>
           ELSE LET e == Context(m.err,
                     "In connect_keymint: Trying to connect to genuine KeyMint service.") IN
                IF IsNameNotFound(e)
                THEN /\ Step(t, s, "km_add_compat")
                     /\ UNCHANGED <<kmVars, nextHandle>>
                ELSE /\ KmFail(t, s, e)
                     /\ UNCHANGED nextHandle
    /\ UNCHANGED <<dbVars, tsVars, compatRegistered>>

\* keystore2_km_compat::add_keymint_device_service(): a no-op if called before.
KmAddCompat(t) ==
    /\ pc[t] = "km_add_compat"
    /\ compatRegistered' = TRUE
    /\ Step(t, <<"add_keymint_device_service">>, "km_get_compat")
    /\ UNCHANGED <<dbVars, kmVars, tsVars, nextHandle>>

\* KmGetCompat going back to the native lookup when the compat service is not
\* found.
KmGetCompatRetriesNative(t) ==
    /\ pc[t] = "km_get_compat"
    /\ \E r \in {Ok("keystore_compat_service")} \cup {Err(sc) : sc \in StatusCodes} :
        LET m == map_binder_status_code(r)
            s == <<"get_interface", COMPAT_SERVICE_NAME, Outcome(m)>> IN
        IF m.ok
        THEN /\ Step(t, s, "km_get_legacy")
             /\ UNCHANGED kmVars
        ELSE /\ Step(t, s, "km_get_interface")
             /\ UNCHANGED kmVars
    /\ UNCHANGED <<dbVars, tsVars, envVars>>

\* binder::get_interface("android.security.compat"): every error is returned
\* with its context by the ? operator.
KmGetCompat(t) ==
    /\ pc[t] = "km_get_compat"
    /\ \E r \in {Ok("keystore_compat_service")} \cup {Err(sc) : sc \in StatusCodes} :
        LET m == map_binder_status_code(r)
            s == <<"get_interface", COMPAT_SERVICE_NAME, Outcome(m)>> IN
        IF m.ok
        THEN /\ Step(t, s, "km_get_legacy")
             /\ UNCHANGED kmVars
        ELSE KmFail(t, s, Context(m.err,
                 "In connect_keymint: Trying to connect to compat service."))
    /\ UNCHANGED <<dbVars, tsVars, envVars>>

\* The map_err of the legacy wrapper request: NAME_NOT_FOUND becomes
\* HARDWARE_TYPE_UNAVAILABLE, any other error is kept.
LegacyMapErr(e) ==
    IF IsNameNotFound(e) THEN Km("HARDWARE_TYPE_UNAVAILABLE") ELSE e

\* KmGetLegacy that always asks for the TRUSTED_ENVIRONMENT wrapper.
KmGetLegacyTee(t) ==
    /\ pc[t] = "km_get_legacy"
    /\ \E r \in {Ok(NewHandle("compat", TRUSTED_ENVIRONMENT))}
                \cup {Err(TransactionFailed(sc)) : sc \in StatusCodes} :
        LET m == map_binder_status(r)
            s == <<"getKeyMintDevice", TRUSTED_ENVIRONMENT, Outcome(m)>> IN
        IF m.ok
        THEN /\ Goto(t, "km_hw_info")
             /\ frame' = [frame EXCEPT ![t].trace = Append(@, s),
                                       ![t].keymint = Some(m.val)]
             /\ nextHandle' = nextHandle + 1
             /\ UNCHANGED <<calls, ret, kmVars>>
        ELSE /\ KmFail(t, s, Context(LegacyMapErr(m.err),
                      "In connect_keymint: Trying to get Legacy wrapper."))
             /\ UNCHANGED nextHandle
    /\ UNCHANGED <<dbVars, tsVars, compatRegistered>>

\* keystore_compat_service.getKeyMintDevice(*security_level)
KmGetLegacy(t) ==
    /\ pc[t] = "km_get_legacy"
    /\ \E r \in {Ok(NewHandle("compat", frame[t].arg))}
                \cup {Err(TransactionFailed(sc)) : sc \in StatusCodes} :
        LET m == map_binder_status(r)
            s == <<"getKeyMintDevice", frame[t].arg, Outcome(m)>> IN
        IF m.ok
        THEN /\ Goto(t, "km_hw_info")
             /\ frame' = [frame EXCEPT ![t].trace = Append(@, s),
                                       ![t].keymint = Some(m.val)]
             /\ nextHandle' = nextHandle + 1
             /\ UNCHANGED <<calls, ret, kmVars>>
        ELSE /\ KmFail(t, s, Context(LegacyMapErr(m.err),
                      "In connect_keymint: Trying to get Legacy wrapper."))
             /\ UNCHANGED nextHandle
    /\ UNCHANGED <<dbVars, tsVars, compatRegistered>>

\* KmGetHardwareInfo caching the device it obtained even though the
\* hardware-info query failed.
KmGetHardwareInfoCachesDevice(t) ==
    /\ pc[t] = "km_hw_info"
    /\ \E r \in {Ok(i) : i \in HwInfos} \cup {Err(ServiceSpecific("UNKNOWN_ERROR"))} :
        LET m == map_km_error(r)
            s == <<"getHardwareInfo", frame[t].keymint.val.id, Outcome(m)>> IN
        IF m.ok
        THEN /\ Goto(t, "km_insert")
             /\ frame' = [frame EXCEPT ![t].trace = Append(@, s),
                                       ![t].hw_info = Some(m.val)]
             /\ UNCHANGED <<calls, ret, kmVars>>
        ELSE /\ StepReturn(t, s, Err(Context(Context(m.err,
                    "In connect_keymint: Failed to get hardware info."),
                    "In get_keymint_device.")))
             /\ KEY_MINT_DEVICES' = [KEY_MINT_DEVICES EXCEPT
                    !.holder = None,
                    !.map = insert_uuid_by_sec_level(
                                insert_devices_by_uuid(@, frame[t].arg,
                                    frame[t].keymint.val, "hw_info_a"),
                                frame[t].arg)]
             /\ UNCHANGED firstRes
    /\ UNCHANGED <<dbVars, tsVars, envVars>>

\* map_km_error(keymint.getHardwareInfo()).context(..)?
KmGetHardwareInfo(t) ==
    /\ pc[t] = "km_hw_info"
    /\ \E r \in {Ok(i) : i \in HwInfos} \cup {Err(ServiceSpecific("UNKNOWN_ERROR"))} :
        LET m == map_km_error(r)
            s == <<"getHardwareInfo", frame[t].keymint.val.id, Outcome(m)>> IN
        IF m.ok
        THEN /\ Goto(t, "km_insert")
             /\ frame' = [frame EXCEPT ![t].trace = Append(@, s),
                                       ![t].hw_info = Some(m.val)]
             /\ UNCHANGED <<calls, ret, kmVars>>
        ELSE KmFail(t, s, Context(m.err,
                 "In connect_keymint: Failed to get hardware info."))
    /\ UNCHANGED <<dbVars, tsVars, envVars>>

\* devices_map.insert(..), first statement
KmInsertDevice(t) ==
    /\ pc[t] = "km_insert"
    /\ KEY_MINT_DEVICES' = [KEY_MINT_DEVICES EXCEPT !.map =
           insert_devices_by_uuid(@, frame[t].arg, frame[t].keymint.val,
                                  frame[t].hw_info.val)]
    /\ Move(t, "km_insert_level")
    /\ UNCHANGED <<dbVars, firstRes, tsVars, envVars>>

\* devices_map.insert(..), second statement, then
\* Ok(devices_map.dev_by_sec_level(security_level).unwrap()): the guard is
\* dropped on return, or by the unwinding of a failed unwrap.
KmInsertLevel(t) ==
    /\ pc[t] = "km_insert_level"
    /\ LET m == insert_uuid_by_sec_level(KEY_MINT_DEVICES.map, frame[t].arg)
           got == dev_by_sec_level(m, frame[t].arg) IN
       IF got.some
       THEN /\ Return(t, Ok(got.val))
            /\ NoteFirstRes(t, frame[t].arg, got.val)
            /\ KEY_MINT_DEVICES' = [KEY_MINT_DEVICES EXCEPT !.map = m,
                                                            !.holder = None]
       ELSE /\ Panic(t, "called Option::unwrap() on a None value")
            /\ KEY_MINT_DEVICES' = [KEY_MINT_DEVICES EXCEPT !.map = m,
                                                            !.holder = None,
                                                            !.poisoned = TRUE]
            /\ UNCHANGED firstRes
    /\ UNCHANGED <<dbVars, tsVars, envVars>>

\* ------------------------------------------------- get_keymint_dev_by_uuid
\* get_keymint_dev_by_uuid(&uuid) is called.
GetKeymintDevByUuid(t, uuid) ==
    /\ Begin(t, "get_keymint_dev_by_uuid", uuid, "uuid_lock")
    /\ UNCHANGED <<dbVars, kmVars, tsVars, envVars>>

\* UuidLookup that brings up the compat service on a miss.
UuidLookupRegisters(t) ==
    /\ pc[t] = "uuid_lock"
    /\ KEY_MINT_DEVICES.holder = None
    /\ IF KEY_MINT_DEVICES.poisoned
       THEN /\ Panic(t, "PoisonError")
            /\ UNCHANGED compatRegistered
       ELSE LET hit == dev_by_uuid(KEY_MINT_DEVICES.map, frame[t].arg) IN
            IF hit.some
            THEN /\ Return(t, Ok([dev |-> hit.val.dev, hw_info |-> hit.val.hw_info]))
                 /\ UNCHANGED compatRegistered
            ELSE /\ StepReturn(t, <<"add_keymint_device_service">>,
                        Err(Context(ErrorSys,
                            "In get_keymint_dev_by_uuid: No KeyMint instance found.")))
                 /\ compatRegistered' = TRUE
    /\ UNCHANGED <<dbVars, kmVars, tsVars, nextHandle>>

\* KEY_MINT_DEVICES.lock().unwrap(), then
\* if let Some((dev, hw_info, _)) = devices_map.dev_by_uuid(uuid); the guard is
\* dropped on return.
UuidLookup(t) ==
    /\ pc[t] = "uuid_lock"
    /\ KEY_MINT_DEVICES.holder = None
    /\ IF KEY_MINT_DEVICES.poisoned
       THEN Panic(t, "PoisonError")
       ELSE LET hit == dev_by_uuid(KEY_MINT_DEVICES.map, frame[t].arg) IN
            IF hit.some
            THEN Return(t, Ok([dev |-> hit.val.dev, hw_info |-> hit.val.hw_info]))
            ELSE Return(t, Err(Context(ErrorSys,
                     "In get_keymint_dev_by_uuid: No KeyMint instance found.")))
    /\ UNCHANGED <<dbVars, kmVars, tsVars, envVars>>

\* --------------------------------------------------- get_timestamp_service
\* get_timestamp_service() is called.
GetTimestampService(t) ==
    /\ Begin(t, "get_timestamp_service", NoArg, "ts_lock")
    /\ UNCHANGED <<dbVars, kmVars, tsVars, envVars>>

\* The first successful result of get_timestamp_service is remembered.
NoteFirstTs(t, v) ==
    firstTs' = IF firstTs.some THEN firstTs
               ELSE Some(v)

\* TsLookup without the cache: every call connects.
TsLookupNoCache(t) ==
    /\ pc[t] = "ts_lock"
    /\ TIME_STAMP_DEVICE.holder = None
    /\ IF TIME_STAMP_DEVICE.poisoned
       THEN /\ Panic(t, "PoisonError")
            /\ UNCHANGED tsVars
       ELSE /\ Step(t, <<"connect_secureclock">>, "ts_get_interface")
            /\ TIME_STAMP_DEVICE' = [TIME_STAMP_DEVICE EXCEPT !.holder = Some(t)]
            /\ UNCHANGED firstTs
    /\ UNCHANGED <<dbVars, kmVars, envVars>>

\* TIME_STAMP_DEVICE.lock().unwrap(), then if let Some(dev) = &*ts_device: a hit
\* returns a clone of the cached handle and drops the guard, a miss enters
\* connect_secureclock with the guard held.
TsLookup(t) ==
    /\ pc[t] = "ts_lock"
    /\ TIME_STAMP_DEVICE.holder = None
    /\ IF TIME_STAMP_DEVICE.poisoned
       THEN /\ Panic(t, "PoisonError")
            /\ UNCHANGED tsVars
       ELSE IF TIME_STAMP_DEVICE.dev.some
            THEN /\ Return(t, Ok(TIME_STAMP_DEVICE.dev.val))
                 /\ NoteFirstTs(t, TIME_STAMP_DEVICE.dev.val)
                 /\ UNCHANGED TIME_STAMP_DEVICE
            ELSE /\ Step(t, <<"connect_secureclock">>, "ts_get_interface")
                 /\ TIME_STAMP_DEVICE' = [TIME_STAMP_DEVICE EXCEPT !.holder = Some(t)]
                 /\ UNCHANGED firstTs
    /\ UNCHANGED <<dbVars, kmVars, envVars>>

\* connect_secureclock().context("In get_timestamp_service.")? fails after the
\* step s: the error is returned and the guard is dropped; nothing is stored.
TsFail(t, s, e) ==
    /\ StepReturn(t, s, Err(Context(e, "In get_timestamp_service.")))
    /\ TIME_STAMP_DEVICE' = [TIME_STAMP_DEVICE EXCEPT !.holder = None]
    /\ UNCHANGED firstTs

\* binder::get_interface(TIME_STAMP_SERVICE_NAME): the genuine secure clock.
TsGetInterface(t) ==
    /\ pc[t] = "ts_get_interface"
    /\ \E r \in {Ok(NewHandle("native", TIME_STAMP_SERVICE_NAME))}
                \cup {Err(sc) : sc \in StatusCodes} :
           LET m == map_binder_status_code(r)
               s == <<"get_interface", TIME_STAMP_SERVICE_NAME, Outcome(m)>> IN
           IF m.ok
           THEN /\ Goto(t, "ts_store")
                /\ frame' = [frame EXCEPT ![t].trace = Append(@, s),
                                          ![t].keymint = Some(m.val)]
                /\ nextHandle' = nextHandle + 1
                /\ UNCHANGED <<calls, ret, tsVars>>
           ELSE LET e == Context(m.err,
                     "In connect_secureclock: Trying to connect to genuine secure clock service.")
                IN IF IsNameNotFound(e)
                   THEN /\ Step(t, s, "ts_add_compat")
                        /\ UNCHANGED <<tsVars, nextHandle>>
                   ELSE /\ TsFail(t, s, e)
                        /\ UNCHANGED nextHandle
    /\ UNCHANGED <<dbVars, kmVars, compatRegistered>>

\* keystore2_km_compat::add_keymint_device_service(): a no-op if called before.
TsAddCompat(t) ==
    /\ pc[t] = "ts_add_compat"
    /\ compatRegistered' = TRUE
    /\ Step(t, <<"add_keymint_device_service">>, "ts_get_compat")
    /\ UNCHANGED <<dbVars, kmVars, tsVars, nextHandle>>

\* binder::get_interface("android.security.compat")
TsGetCompat(t) ==
    /\ pc[t] = "ts_get_compat"
    /\ \E r \in {Ok("keystore_compat_service")} \cup {Err(sc) : sc \in StatusCodes} :
        LET m == map_binder_status_code(r)
            s == <<"get_interface", COMPAT_SERVICE_NAME, Outcome(m)>> IN
        IF m.ok
        THEN /\ Step(t, s, "ts_get_legacy")
             /\ UNCHANGED tsVars
        ELSE TsFail(t, s, Context(m.err,
                 "In connect_secureclock: Trying to connect to compat service."))
    /\ UNCHANGED <<dbVars, kmVars, envVars>>

\* keystore_compat_service.getSecureClock()
TsGetLegacy(t) ==
    /\ pc[t] = "ts_get_legacy"
    /\ \E r \in {Ok(NewHandle("compat", "secureclock"))}
                \cup {Err(TransactionFailed(sc)) : sc \in StatusCodes} :
        LET m == map_binder_status(r)
            s == <<"getSecureClock", Outcome(m)>> IN
        IF m.ok
        THEN /\ Goto(t, "ts_store")
             /\ frame' = [frame EXCEPT ![t].trace = Append(@, s),
                                       ![t].keymint = Some(m.val)]
             /\ nextHandle' = nextHandle + 1
             /\ UNCHANGED <<calls, ret, tsVars>>
        ELSE /\ TsFail(t, s, Context(LegacyMapErr(m.err),
                      "In connect_secureclock: Trying to get Legacy wrapper."))
             /\ UNCHANGED nextHandle
    /\ UNCHANGED <<dbVars, kmVars, compatRegistered>>

\* *ts_device = Some(dev.clone()); Ok(dev): the guard is dropped on return.
TsStore(t) ==
    /\ pc[t] = "ts_store"
    /\ TIME_STAMP_DEVICE' = [TIME_STAMP_DEVICE EXCEPT !.dev = Some(frame[t].keymint.val),
                                                      !.holder = None]
    /\ Return(t, Ok(frame[t].keymint.val))
    /\ NoteFirstTs(t, frame[t].keymint.val)
    /\ UNCHANGED <<dbVars, kmVars, envVars>>

\* ---------------------------------------------------------- specifications
NextDb(t) ==
    \/ DBFirstAccess(t)
    \/ DbPathLock(t)
    \/ KeystoreDBNew(t)
    \/ CallOnce(t)
    \/ InsertLastOffBody(t)
    \/ CleanupLeftovers(t)
    \/ NotifyGc(t)
    \/ OnceDone(t)
    \/ DbReturn(t)

NextKm(t) ==
    \/ \E l \in SecurityLevels : GetKeymintDevice(t, l)
    \/ KmLookup(t)
    \/ KmGetInterface(t)
    \/ KmAddCompat(t)
    \/ KmGetCompat(t)
    \/ KmGetLegacy(t)
    \/ KmGetHardwareInfo(t)
    \/ KmInsertDevice(t)
    \/ KmInsertLevel(t)
    \/ \E u \in Uuids : GetKeymintDevByUuid(t, u)
    \/ UuidLookup(t)

NextTs(t) ==
    \/ GetTimestampService(t)
    \/ TsLookup(t)
    \/ TsGetInterface(t)
    \/ TsAddCompat(t)
    \/ TsGetCompat(t)
    \/ TsGetLegacy(t)
    \/ TsStore(t)

Next == \E t \in Threads : NextDb(t) \/ NextKm(t) \/ NextTs(t)

Spec == Init /\ [][Next]_vars

\* A step of a call that thread t has begun. Whether a thread begins a call
\* is up to its caller; once it has, the scheduler keeps running it whenever
\* it can take a step, every external call (database open, repair step,
\* binder call) returning.
Continue(t) == pc[t] # "idle" /\ (NextDb(t) \/ NextKm(t) \/ NextTs(t))

FairSpec == Spec /\ \A t \in Threads : WF_vars(Continue(t))

\* -------------------------------------------------------------- properties
\* Number of times a repair step was executed.
Executed(step) == Cardinality({i \in 1..Len(repairLog) : repairLog[i][1] = step})
RepairSteps == {"insert_last_off_body", "cleanup_leftovers", "notify_gc"}
RepairPcs == RepairSteps \cup {"once_done"}

\* Thread t returns from a call of op in this step.
Returns(t, op) == pc[t] # "idle" /\ pc'[t] = "idle" /\ frame[t].op = op

\* Positions inside connect_keymint and the insert, all with the cache lock held
KmConnectPcs == {"km_get_interface", "km_add_compat", "km_get_compat", "km_get_legacy",
                 "km_hw_info"}
KmInsertPcs == {"km_insert", "km_insert_level"}

\* Positions inside connect_secureclock and the store, with the timestamp lock held
TsConnectPcs == {"ts_get_interface", "ts_add_compat", "ts_get_compat", "ts_get_legacy"}

\* C1: however the threads interleave their first creation of a database
\* session, no step of the repair sequence is executed twice, and once a
\* session has been returned to some thread each step was executed once.
C1_RepairExactlyOnce ==
    /\ \A s \in RepairSteps : Executed(s) <= 1
    /\ (\E t \in Threads : DB[t] = "open") => \A s \in RepairSteps : Executed(s) = 1

\* Two threads hold a session, so two creations went through the latch.
C1_Witness == Cardinality({t \in Threads : DB[t] = "open"}) >= 2

\* C2: no thread is returning or has returned from create_thread_local_db
\* unless the Once is complete and no thread is still inside the repair.
C2_NoSessionBeforeRepair ==
    \A t \in Threads :
        (DB[t] = "open" \/ pc[t] = "db_return") =>
            /\ DB_INIT = "complete"
            /\ \A u \in Threads : pc[u] \notin RepairPcs

\* A thread that did not run the repair has just been given its session.
C2_Witness ==
    /\ ret.op = "create_thread_local_db"
    /\ ret.res.ok
    /\ ret.trace = << <<"KeystoreDB::new", "OK">> >>

\* C3: once get_keymint_device(L) has succeeded, every call for L that returns
\* returns that first triple, and no thread is inside connect_keymint for L.
C3_SameDeviceNoReconnect ==
    /\ (ret.op = "get_keymint_device" /\ firstRes[ret.arg].some) =>
           ret.res = Ok(firstRes[ret.arg].val)
    /\ \A t \in Threads :
           pc[t] \in KmConnectPcs \cup KmInsertPcs => ~firstRes[frame[t].arg].some

\* A call for an already resolved level returned without any external step.
C3_Witness ==
    /\ ret.op = "get_keymint_device"
    /\ ret.res.ok
    /\ ret.trace = <<>>

\* C4: a return of get_keymint_dev_by_uuid(U) leaves the cache and the service
\* connections as they were and made no external step; it is the not-found
\* error when U has no record, and the (handle, metadata) of the first
\* get_keymint_device that returned identity U when there is one.
C4_ByUuidCacheOnly ==
    [][\A t \in Threads :
        Returns(t, "get_keymint_dev_by_uuid") =>
            /\ UNCHANGED <<KEY_MINT_DEVICES, compatRegistered, nextHandle>>
            /\ ret'.trace = <<>>
            /\ ~KEY_MINT_DEVICES.map.devices_by_uuid[frame[t].arg].some =>
                   /\ ~ret'.res.ok
                   /\ RootCause(ret'.res.err) = [kind |-> "Rc", code |-> "SYSTEM_ERROR"]
            /\ \A l \in SecurityLevels :
                   (firstRes[l].some /\ firstRes[l].val.uuid = frame[t].arg) =>
                       ret'.res = Ok([dev |-> firstRes[l].val.dev,
                                      hw_info |-> firstRes[l].val.hw_info])
      ]_vars

\* get_keymint_dev_by_uuid found the record of a device resolved before.
C4_Witness ==
    /\ ret.op = "get_keymint_dev_by_uuid"
    /\ ret.res.ok
    /\ \E l \in SecurityLevels : firstRes[l].some /\ firstRes[l].val.uuid = ret.arg

\* What the steps of a get_keymint_device call reported, read off its trace:
\* the native lookup is step 2; on the fallback path the compat lookup is
\* step 4 and the legacy wrapper request step 5.
NativeOutcome(tr) == IF Len(tr) >= 2 THEN tr[2][3] ELSE "none"
CompatOutcome(tr) == IF Len(tr) >= 4 THEN tr[4][3] ELSE "none"
LegacyOutcome(tr) == IF Len(tr) >= 5 THEN tr[5][3] ELSE "none"
HardwareTypeUnavailable == [kind |-> "Km", code |-> "HARDWARE_TYPE_UNAVAILABLE"]
NameNotFound == [kind |-> "BinderTransaction", code |-> "NAME_NOT_FOUND"]

\* C5: a get_keymint_device call whose native lookup reported NAME_NOT_FOUND
\* and whose bridge path reported NAME_NOT_FOUND as well, at the compat service
\* lookup or at the legacy wrapper request, fails with
\* HARDWARE_TYPE_UNAVAILABLE.
C5_BothAbsentUnavailable ==
    (/\ ret.op = "get_keymint_device"
     /\ NativeOutcome(ret.trace) = "NAME_NOT_FOUND"
     /\ \/ CompatOutcome(ret.trace) = "NAME_NOT_FOUND"
        \/ LegacyOutcome(ret.trace) = "NAME_NOT_FOUND")
    => /\ ~ret.res.ok
       /\ RootCause(ret.res.err) # NameNotFound
       /\ RootCause(ret.res.err) = HardwareTypeUnavailable

\* C6: a get_keymint_device call returns right after a native lookup that
\* reported an error other than NAME_NOT_FOUND: the lookup is its last step,
\* the error returned is that binder error, the compat service is neither
\* registered nor asked, and the cache is as before, without the level.
C6_NoFallbackOnOtherError ==
    [][\A t \in Threads :
        (/\ Returns(t, "get_keymint_device")
         /\ NativeOutcome(ret'.trace) \notin {"none", "OK", "NAME_NOT_FOUND"})
        => /\ Len(ret'.trace) = 2
           /\ ~ret'.res.ok
           /\ RootCause(ret'.res.err) =
                  [kind |-> "BinderTransaction", code |-> NativeOutcome(ret'.trace)]
           /\ UNCHANGED <<compatRegistered, nextHandle>>
           /\ KEY_MINT_DEVICES'.map = KEY_MINT_DEVICES.map
           /\ ~dev_by_sec_level(KEY_MINT_DEVICES'.map, frame[t].arg).some
      ]_vars

\* A call has failed on a native lookup that reported DEAD_OBJECT.
C6_Witness ==
    /\ ret.op = "get_keymint_device"
    /\ NativeOutcome(ret.trace) = "DEAD_OBJECT"
    /\ ~ret.res.ok

\* C7: a get_keymint_device call whose native lookup reported NAME_NOT_FOUND
\* succeeds exactly when the compat lookup, the legacy wrapper request and the
\* hardware info query all succeed; it then made its steps in the order native
\* lookup, bridge registration, compat lookup, wrapper request for the level
\* asked for, hardware info query, and returns the wrapped device, which is
\* the cached device of the level.
C7_BridgeSuccess ==
    (ret.op = "get_keymint_device" /\ NativeOutcome(ret.trace) = "NAME_NOT_FOUND") =>
        LET tr == ret.trace IN
        /\ ret.res.ok <=> (Len(tr) = 6 /\ tr[4][3] = "OK" /\ tr[5][3] = "OK" /\ tr[6][3] = "OK")
        /\ ret.res.ok =>
            /\ tr = << <<"connect_keymint", ret.arg>>,
                       <<"get_interface",
                         <<KEYMINT_SERVICE_NAME,
                           IF ret.arg = STRONGBOX THEN "strongbox" ELSE "default">>,
                         "NAME_NOT_FOUND">>,
                       <<"add_keymint_device_service">>,
                       <<"get_interface", COMPAT_SERVICE_NAME, "OK">>,
                       <<"getKeyMintDevice", ret.arg, "OK">>,
                       <<"getHardwareInfo", ret.res.val.dev.id, "OK">> >>
            /\ ret.res.val.dev.via = "compat"
            /\ ret.res.val.dev.what = ret.arg
            /\ dev_by_sec_level(KEY_MINT_DEVICES.map, ret.arg) = Some(ret.res.val)

\* A call for STRONGBOX returned a device obtained through the compat service.
C7_Witness ==
    /\ ret.op = "get_keymint_device"
    /\ ret.arg = STRONGBOX
    /\ ret.res.ok
    /\ ret.res.val.dev.via = "compat"

\* C8: once get_timestamp_service has succeeded the cell holds that handle,
\* every call that returns returns it, and no thread is inside
\* connect_secureclock or about to store a handle.
C8_TimestampFixed ==
    firstTs.some =>
        /\ TIME_STAMP_DEVICE.dev = Some(firstTs.val)
        /\ ret.op = "get_timestamp_service" => ret.res = Ok(firstTs.val)
        /\ \A t \in Threads : pc[t] \notin TsConnectPcs \cup {"ts_store"}

\* A call returned the cached timestamp handle without any external step.
C8_Witness ==
    /\ ret.op = "get_timestamp_service"
    /\ ret.res.ok
    /\ ret.trace = <<>>

\* C9: whenever the cache lock is free, every level that is mapped to an
\* identity has a record under that identity.
C9_LevelHasRecord ==
    KEY_MINT_DEVICES.holder = None =>
        \A l \in SecurityLevels :
            LET u == KEY_MINT_DEVICES.map.uuid_by_sec_level[l] IN
            u.some => KEY_MINT_DEVICES.map.devices_by_uuid[u.val].some

\* The cache lock is free and two levels are mapped.
C9_Witness ==
    /\ KEY_MINT_DEVICES.holder = None
    /\ Cardinality({l \in SecurityLevels :
                       KEY_MINT_DEVICES.map.uuid_by_sec_level[l].some}) = 2

\* C10: get_keymint_device for a level other than TRUSTED_ENVIRONMENT and
\* STRONGBOX returns HARDWARE_TYPE_UNAVAILABLE in the step that took the cache
\* lock, after no lookup and no registration, and leaves the cache as it was.
C10_UnsupportedLevel ==
    [][\A t \in Threads :
        (/\ Returns(t, "get_keymint_device")
         /\ frame[t].arg \notin {TRUSTED_ENVIRONMENT, STRONGBOX})
        => /\ pc[t] = "km_lock"
           /\ ~ret'.res.ok
           /\ RootCause(ret'.res.err) = HardwareTypeUnavailable
           /\ ret'.trace = << <<"connect_keymint", frame[t].arg>> >>
           /\ UNCHANGED <<KEY_MINT_DEVICES, compatRegistered, nextHandle>>
      ]_vars

\* A call for SOFTWARE has failed.
C10_Witness ==
    /\ ret.op = "get_keymint_device"
    /\ ret.arg = SOFTWARE
    /\ ~ret.res.ok

\* The hardware-info query is the last step of the call and it failed.
HwInfoFailed(tr) ==
    /\ Len(tr) >= 1
    /\ tr[Len(tr)][1] = "getHardwareInfo"
    /\ tr[Len(tr)][3] # "OK"

\* C11: when a device was obtained, natively or through the bridge, but its
\* hardware-info query fails, get_keymint_device returns an error and caches
\* nothing: the maps are as they were, the level has no identity and the
\* identity no record, and a later call for an unresolved supported level
\* goes into connect_keymint again.
C11_HwInfoFailureNotCached ==
    [][\A t \in Threads :
        /\ (Returns(t, "get_keymint_device") /\ HwInfoFailed(ret'.trace)) =>
              /\ ~ret'.res.ok
              /\ KEY_MINT_DEVICES'.map = KEY_MINT_DEVICES.map
              /\ ~dev_by_sec_level(KEY_MINT_DEVICES'.map, frame[t].arg).some
              /\ ~dev_by_uuid(KEY_MINT_DEVICES'.map, UuidFrom(frame[t].arg)).some
        /\ (/\ pc[t] = "km_lock"
            /\ pc'[t] # "km_lock"
            /\ frame[t].arg \in {TRUSTED_ENVIRONMENT, STRONGBOX}
            /\ ~KEY_MINT_DEVICES.map.uuid_by_sec_level[frame[t].arg].some) =>
              /\ pc'[t] = "km_get_interface"
              /\ frame'[t].trace = << <<"connect_keymint", frame[t].arg>> >>
      ]_vars

\* After a call failed at the hardware-info query, a later call for the same
\* level is connecting afresh.
C11_Witness ==
    /\ ret.op = "get_keymint_device"
    /\ HwInfoFailed(ret.trace)
    /\ \E t \in Threads :
           /\ pc[t] = "km_get_interface"
           /\ frame[t].arg = ret.arg

\* The order of the closure's statements.
RepairOrder == <<"insert_last_off_body", "cleanup_leftovers", "notify_gc">>

\* C12: the repair steps are executed in the order insert_last_off_body,
\* cleanup_leftovers, notify_gc: what has been executed so far is a prefix of
\* that order, a step is started only by a thread whose every earlier step
\* has completed, and only the last executed step can have failed.
C12_RepairOrder ==
    /\ Len(repairLog) <= Len(RepairOrder)
    /\ \A i \in 1..Len(repairLog) :
           /\ repairLog[i][1] = RepairOrder[i]
           /\ i < Len(repairLog) => repairLog[i][2] = "OK"
    /\ \A t \in Threads : \A k \in 1..Len(RepairOrder) :
           pc[t] = RepairOrder[k] =>
               repairLog = [i \in 1..(k - 1) |-> <<RepairOrder[i], "OK">>]

\* The whole sequence has been executed.
C12_Witness ==
    /\ Len(repairLog) = Len(RepairOrder)
    /\ repairLog[Len(repairLog)] = <<"notify_gc", "OK">>

\* C13: a thread that does not win the race for the Once opens its database
\* (KeystoreDB::new) only after the repair has completed: while the closure
\* is running, no other thread has already opened its database and reached
\* the Once.
C13_LoserOpensAfterRepair ==
    DB_INIT = "running" => \A t \in Threads : pc[t] # "call_once"

\* C13, amended: every thread opens its database before it reaches the Once,
\* so a thread that loses the race has opened before or during the repair;
\* it leaves call_once, and create_thread_local_db, only once the Once is
\* complete and the three steps have been executed.
C13_LoserReturnsAfterRepair ==
    /\ \A t \in Threads :
           /\ pc[t] \in {"call_once", "db_return"} \cup RepairPcs =>
                  frame[t].trace[1] = <<"KeystoreDB::new", "OK">>
           /\ (pc[t] = "db_return" /\ Len(frame[t].trace) = 1) =>
                  /\ DB_INIT = "complete"
                  /\ Len(repairLog) = Len(RepairOrder)
    /\ (/\ ret.op = "create_thread_local_db"
        /\ ret.res.ok
        /\ Len(ret.trace) = 1) =>
           /\ DB_INIT = "complete"
           /\ Len(repairLog) = Len(RepairOrder)

\* A thread has opened its database and waits at the Once while another
\* thread is in the middle of the repair.
C13_Witness ==
    /\ DB_INIT = "running"
    /\ \E t, u \in Threads :
           /\ pc[t] = "call_once"
           /\ frame[t].trace = << <<"KeystoreDB::new", "OK">> >>
           /\ pc[u] = "cleanup_leftovers"

\* C14: the device cache only grows and its entries are stable: a level that
\* is mapped to an identity stays mapped to that identity, and the record of
\* that identity stays the same (handle, metadata), through every step of
\* get_keymint_device, get_keymint_dev_by_uuid and get_timestamp_service.
C14_CacheOnlyGrows ==
    [][\A l \in SecurityLevels :
        LET m == KEY_MINT_DEVICES.map
            n == KEY_MINT_DEVICES'.map IN
        m.uuid_by_sec_level[l].some =>
            /\ n.uuid_by_sec_level[l] = m.uuid_by_sec_level[l]
            /\ m.devices_by_uuid[m.uuid_by_sec_level[l].val].some
            /\ n.devices_by_uuid[m.uuid_by_sec_level[l].val] =
                   m.devices_by_uuid[m.uuid_by_sec_level[l].val]
      ]_vars

\* With one level cached, a call for another level has gone through the
\* insert and returned.
C14_Witness ==
    /\ ret.op = "get_keymint_device"
    /\ ret.res.ok
    /\ ret.trace # <<>>
    /\ \E l \in SecurityLevels \ {ret.arg} :
           KEY_MINT_DEVICES.map.uuid_by_sec_level[l].some

\* The external steps of one kind in the trace of a call.
NativeLookups(tr) ==
    {i \in 1..Len(tr) : /\ tr[i][1] = "get_interface"
                        /\ tr[i][2] # COMPAT_SERVICE_NAME}
CompatLookups(tr) ==
    {i \in 1..Len(tr) : /\ tr[i][1] = "get_interface"
                        /\ tr[i][2] = COMPAT_SERVICE_NAME}
LegacyRequests(tr) ==
    {i \in 1..Len(tr) : tr[i][1] \in {"getKeyMintDevice", "getSecureClock"}}
AtMostOnceEach(tr) ==
    /\ Cardinality(NativeLookups(tr)) <= 1
    /\ Cardinality(CompatLookups(tr)) <= 1
    /\ Cardinality(LegacyRequests(tr)) <= 1

\* C15: no automatic retry: a call of get_keymint_device or
\* get_timestamp_service, running or returned, successful or failed, has
\* performed at most one native lookup, at most one compat lookup and at most
\* one legacy-wrapper request.
C15_NoRetry ==
    /\ \A t \in Threads :
           frame[t].op \in {"get_keymint_device", "get_timestamp_service"} =>
               AtMostOnceEach(frame[t].trace)
    /\ ret.op \in {"get_keymint_device", "get_timestamp_service"} =>
           AtMostOnceEach(ret.trace)

\* A call failed at the last of the three steps, the legacy-wrapper request,
\* having made each of them once.
C15_Witness ==
    /\ ret.op \in {"get_keymint_device", "get_timestamp_service"}
    /\ ~ret.res.ok
    /\ Cardinality(NativeLookups(ret.trace)) = 1
    /\ Cardinality(CompatLookups(ret.trace)) = 1
    /\ Cardinality(LegacyRequests(ret.trace)) = 1

\* The threads inside connect_keymint or the insert that follows it.
Negotiating == {t \in Threads : pc[t] \in KmConnectPcs \cup KmInsertPcs}

\* C16: the negotiation runs with the cache lock held: at most one thread is
\* negotiating a keymint connection and it is the holder of the lock; a
\* negotiation that has succeeded is for a level that had no cached device,
\* so no level gets a second connection; and a call that has returned a
\* device returned the one the cache holds for its level.
C16_OneNegotiation ==
    /\ Cardinality(Negotiating) <= 1
    /\ \A t \in Negotiating : KEY_MINT_DEVICES.holder = Some(t)
    /\ \A t \in Threads :
           pc[t] = "km_insert" =>
               /\ ~KEY_MINT_DEVICES.map.uuid_by_sec_level[frame[t].arg].some
               /\ ~KEY_MINT_DEVICES.map.devices_by_uuid[UuidFrom(frame[t].arg)].some
    /\ (ret.op = "get_keymint_device" /\ ret.res.ok) =>
           dev_by_sec_level(KEY_MINT_DEVICES.map, ret.arg) = Some(ret.res.val)

\* Two concurrent callers for the same uncached level: one negotiates, the
\* other waits for the lock.
C16_Witness ==
    \E t, u \in Threads :
        /\ pc[t] = "km_hw_info"
        /\ pc[u] = "km_lock"
        /\ frame[u].arg = frame[t].arg

\* A step of the repair has failed.
RepairFailed == \E i \in 1..Len(repairLog) : repairLog[i][2] = "FAILED"

\* C17: once a repair step has failed, the repair is never attempted again
\* (the failed step is the last one executed and no thread is inside the
\* closure) and no thread obtains a session: none holds one, none is about to
\* return one, and the Once stays poisoned, so that every creation that
\* reaches it, waiting or later, aborts.
C17_FailedRepairIsFinal ==
    RepairFailed =>
        /\ repairLog[Len(repairLog)][2] = "FAILED"
        /\ \A i \in 1..(Len(repairLog) - 1) : repairLog[i][2] = "OK"
        /\ DB_INIT = "poisoned"
        /\ \A t \in Threads :
               /\ DB[t] # "open"
               /\ pc[t] \notin RepairPcs \cup {"db_return"}
        /\ (ret.op = "create_thread_local_db" => ~ret.res.ok)

\* After a failed repair step, a creation that reached the Once has aborted
\* on its poison.
C17_Witness ==
    /\ RepairFailed
    /\ ret.op = "create_thread_local_db"
    /\ ret.res = Panicked("Once instance has previously been poisoned")

\* C18: a thread whose database open fails aborts before reaching the Once
\* and without a second attempt; the Once stays unarmed and the failure stays
\* that thread's own: a creation that aborts has at least attempted its own
\* open, so that the first thread whose open succeeds runs the repair, which
\* is executed at most once.
C18_OpenFailureIsLocal ==
    /\ (ret.op = "create_thread_local_db" /\ ~ret.res.ok) =>
           /\ ret.trace # <<>>
           /\ ret.res = Panicked("Failed to open database.") =>
                  ret.trace = << <<"KeystoreDB::new", "FAILED">> >>
    /\ \A s \in RepairSteps : Executed(s) <= 1

\* The handle dev is what a negotiation for level l hands out: the service
\* instance named after l, or the legacy wrapper the compat service was asked
\* for with l.
NegotiatedFor(dev, l) ==
    \/ /\ dev.via = "native"
       /\ l = TRUSTED_ENVIRONMENT
       /\ dev.what = <<KEYMINT_SERVICE_NAME, "default">>
    \/ /\ dev.via = "native"
       /\ l = STRONGBOX
       /\ dev.what = <<KEYMINT_SERVICE_NAME, "strongbox">>
    \/ /\ dev.via = "compat"
       /\ dev.what = l

\* C19: the record get_keymint_device(L) returns was obtained by a connection
\* negotiated for L itself, never one connected for another level; and the
\* cached state of a level changes only in the insert of a successful
\* resolution of that level, so a failed resolution changes no level's state.
C19_LevelIsolation ==
    /\ [](ret.op = "get_keymint_device" /\ ret.res.ok =>
             NegotiatedFor(ret.res.val.dev, ret.arg))
    /\ [][/\ \A l \in SecurityLevels :
                \/ /\ KEY_MINT_DEVICES'.map.uuid_by_sec_level[l] =
                          KEY_MINT_DEVICES.map.uuid_by_sec_level[l]
                   /\ KEY_MINT_DEVICES'.map.devices_by_uuid[UuidFrom(l)] =
                          KEY_MINT_DEVICES.map.devices_by_uuid[UuidFrom(l)]
                \/ \E t \in Threads : /\ pc[t] \in KmInsertPcs
                                      /\ frame[t].arg = l
          /\ \A t \in Threads :
                (Returns(t, "get_keymint_device") /\ ~ret'.res.ok) =>
                    KEY_MINT_DEVICES'.map = KEY_MINT_DEVICES.map
         ]_vars

\* A resolution of STRONGBOX has failed while TRUSTED_ENVIRONMENT is cached.
C19_Witness ==
    /\ ret.op = "get_keymint_device"
    /\ ret.arg = STRONGBOX
    /\ ~ret.res.ok
    /\ dev_by_sec_level(KEY_MINT_DEVICES.map, TRUSTED_ENVIRONMENT).some

\* Thread t is blocked: on a lock another thread holds, or on the Once while
\* another thread runs its closure.
Blocked(t) ==
    \/ pc[t] = "db_lock" /\ DB_PATH.holder # None
    \/ pc[t] = "call_once" /\ DB_INIT = "running"
    \/ pc[t] \in {"km_lock", "uuid_lock"} /\ KEY_MINT_DEVICES.holder # None
    \/ pc[t] = "ts_lock" /\ TIME_STAMP_DEVICE.holder # None

\* C20: the operations cannot deadlock: under fair scheduling, every call of
\* create_thread_local_db, get_keymint_device, get_keymint_dev_by_uuid or
\* get_timestamp_service that a thread has begun comes to its end: it returns
\* to its caller, or aborts by the panic of a failed expect or unwrap.
C20_EveryCallEnds ==
    \A t \in Threads :
        (pc[t] \notin {"idle", "panicked"}) ~> (pc[t] \in {"idle", "panicked"})

\* A thread is blocked behind another thread.
C20_Witness == \E t \in Threads : Blocked(t)

=============================================================================
